---- MODULE Spec2Model ----
(***************************************************************************)
(* Model of src/core/pdf_manager.js: BasePdfManager, LocalPdfManager and   *)
(* NetworkPdfManager.  One manager is modelled; its variant is fixed at    *)
(* construction.  The document collaborator (PDFDocument and the objects   *)
(* behind obj[prop]) is an environment that chooses, at every attempt,     *)
(* what the operation does: return a value, throw a MissingDataException   *)
(* for a byte range, or throw another exception.  The ChunkedStreamManager *)
(* (RangeSource) is an environment that settles the promises returned by   *)
(* requestRange.  Promise reactions run as separate steps (microtasks).    *)
(***************************************************************************)
EXTENDS Integers, Sequences, FiniteSets, TLC

(* ------------------------------ bounds --------------------------------- *)
MaxCalls == 2
MaxOps == 3

(* ------------------------------ domains -------------------------------- *)
CallIds == 1..MaxCalls
Variants == {"local", "network"}
Passwords == {"pwA", "pwB"}
CtorPasswords == {"pwA"}
Ranges == {<<0, 1>>, <<2, 4>>}
Values == {"catalog"}
OpErrors == {"FormatError"}
FetchErrors == {"NetworkError"}
Chunks == {"chunkA", "chunkB"}
DocIds == {"doc1"}
EvaluatorOptionSets == {"options"}
DataBuffers == {"data"}
Targets == {"catalog"}
ArgLists == {"args"}
(* The arguments of ensure: obj, whether obj[prop] is a function, and args. *)
Callees == [target : Targets, isFunction : BOOLEAN, args : ArgLists]
NoCallee == [target |-> "none", isFunction |-> FALSE, args |-> "none"]
TermErr == "AbortError"
MissingDataName == "MissingDataException"
NoValue == "none"
NoUrl == "null"
DocBaseUrls == {"", "https://example.com/a.pdf", "HTTP://EXAMPLE.COM", "not a url"}

(* What one attempt of obj[prop] does, as seen by the catch clause. *)
Ready(v) == [kind |-> "Ready", begin |-> 0, end |-> 0, payload |-> v]
MissingData(b, e) == [kind |-> "MissingData", begin |-> b, end |-> e, payload |-> MissingDataName]
Thrown(x) == [kind |-> "Error", begin |-> 0, end |-> 0, payload |-> x]
Outcomes == {Ready(v) : v \in Values}
              \cup {MissingData(r[1], r[2]) : r \in Ranges}
              \cup {Thrown(x) : x \in OpErrors}

Resolved(v) == [status |-> "resolved", reason |-> v]
Rejected(x) == [status |-> "rejected", reason |-> x]
Unsettled == [status |-> "pending", reason |-> NoValue]

VARIABLES
  variant,        \* which class was constructed
  docId,          \* this._docId
  evaluatorOptions, \* this.evaluatorOptions
  loadedStream,   \* this._loadedStreamPromise (local variant)
  cleanups,       \* number of pdfDocument.cleanup() calls made
  pwArg,          \* the argument of the latest updatePassword call
  ctorPassword,   \* the password given to the constructor
  password,       \* this._password
  rawDocBaseUrl,  \* this._docBaseUrl
  shadowed,       \* own property 'docBaseUrl' defined by shadow(): [defined, value]
  validations,    \* number of createValidAbsoluteUrl calls made
  warnings,       \* number of warn() calls made
  urlResults,     \* the values the docBaseUrl queries returned
  queries,        \* number of docBaseUrl queries made
  callee,         \* per ensure call: the arguments ensure was called with
  callState,      \* per ensure call: idle, waiting, fetchOk, fetchFail, settled
  attempts,       \* per ensure call: the attempts of obj[prop], with the password each saw
  fetchLog,       \* per ensure call: the ranges it passed to streamManager.requestRange
  fetchDone,      \* per ensure call: how many of its range fetches were fulfilled
  fetchErr,       \* per ensure call: the reason its range-fetch promise was rejected with
  settle,         \* per ensure call: how the promise returned by ensure was settled
  settleCount,    \* per ensure call: number of resolve/reject calls made
  issuedPw,       \* per ensure call: this._password when ensure was called
  pwStable,       \* per ensure call: no updatePassword since ensure was called
  afterTerm,      \* per ensure call: it was issued after a terminate() call
  pwUpdates,      \* number of updatePassword calls made
  terminates,     \* number of terminate() calls made
  aborted,        \* streamManager.abort() was called
  rangeCalls,     \* number of manager.requestRange calls made
  directLog,      \* the ranges manager.requestRange passed to the stream manager
  lastRange,      \* state of the promise the last manager.requestRange returned
  allChunks,      \* streamManager.requestAllChunks() was called
  sent,           \* the chunks passed to manager.sendProgressiveData, in order
  ingested,       \* the arguments streamManager.onReceiveData was called with, in order
  unreachables,   \* number of unreachable() calls made, each throwing an Error
  apiCalls        \* number of manager calls made, other than ensure

identVars == <<docId, evaluatorOptions, loadedStream>>
urlVars == <<rawDocBaseUrl, shadowed, validations, warnings, urlResults, queries>>
callVars == <<callee, callState, attempts, fetchLog, fetchDone, fetchErr, settle, settleCount,
              issuedPw, pwStable, afterTerm>>
pushVars == <<sent, ingested, unreachables>>
reqVars == <<rangeCalls, directLog, lastRange, allChunks, pushVars>>
vars == <<variant, identVars, cleanups, pwArg, ctorPassword, password, urlVars, callVars, pwUpdates, terminates, aborted, reqVars,
         apiCalls>>

RECURSIVE SumLen(_, _)
SumLen(f, n) == IF n = 0 THEN 0 ELSE Len(f[n]) + SumLen(f, n - 1)
(* Attempts of operations made so far, over all ensure calls. *)
TotalAttempts == SumLen(attempts, MaxCalls)
(* Manager calls and operation attempts made so far. *)
OpsMade == apiCalls + TotalAttempts

(* ------------------------- shared/util helpers ------------------------- *)
(* createValidAbsoluteUrl: the href of the parsed URL when the candidate   *)
(* is an absolute URL of a whitelisted scheme, otherwise null.             *)
CreateValidAbsoluteUrl(url) ==
  CASE url = "https://example.com/a.pdf" -> "https://example.com/a.pdf"
    [] url = "HTTP://EXAMPLE.COM" -> "http://example.com/"
    [] OTHER -> NoUrl

(* shadow(obj, prop, value): defines an own data property that hides the   *)
(* prototype's getter, and returns value.                                  *)
Shadow(value) == [defined |-> TRUE, value |-> value]

(* ----------------------------- docBaseUrl ------------------------------ *)
ResolvedDocBaseUrl(raw) ==
  IF raw # "" THEN CreateValidAbsoluteUrl(raw) ELSE NoUrl

DocBaseUrlGetter_NoShadow ==
  /\ validations' = validations + (IF rawDocBaseUrl # "" THEN 1 ELSE 0)
  /\ warnings' = warnings +
       (IF rawDocBaseUrl # "" /\ CreateValidAbsoluteUrl(rawDocBaseUrl) = NoUrl THEN 1 ELSE 0)
  /\ shadowed' = shadowed
  /\ urlResults' = urlResults \cup {ResolvedDocBaseUrl(rawDocBaseUrl)}

(* get docBaseUrl(), run when no own property hides it. *)
DocBaseUrlGetter ==
  /\ validations' = validations + (IF rawDocBaseUrl # "" THEN 1 ELSE 0)
  /\ warnings' = warnings +
       (IF rawDocBaseUrl # "" /\ CreateValidAbsoluteUrl(rawDocBaseUrl) = NoUrl THEN 1 ELSE 0)
  /\ shadowed' = Shadow(ResolvedDocBaseUrl(rawDocBaseUrl))
  /\ urlResults' = urlResults \cup {ResolvedDocBaseUrl(rawDocBaseUrl)}

(* A read of manager.docBaseUrl. *)
DocBaseUrl ==
  /\ OpsMade < MaxOps
  /\ apiCalls' = apiCalls + 1
  /\ queries' = queries + 1
  /\ IF shadowed.defined
       THEN /\ urlResults' = urlResults \cup {shadowed.value}
            /\ UNCHANGED <<validations, warnings, shadowed>>
       ELSE DocBaseUrlGetter
  /\ UNCHANGED <<variant, identVars, cleanups, pwArg, ctorPassword, password, rawDocBaseUrl, callVars, pwUpdates,
                 terminates,
                 aborted, reqVars>>

(* ------------------------------- ensure -------------------------------- *)
(* Mutant: the operation reads the password given at construction. *)
Attempt_Ctor(c, o) ==
  [outcome |-> o, password |-> ctorPassword,
   invoked |-> callee'[c].isFunction,
   thisArg |-> IF callee'[c].isFunction THEN callee'[c].target ELSE NoValue,
   args |-> IF callee'[c].isFunction THEN callee'[c].args ELSE NoValue]

(* Mutant: the call keeps the password that was stored when it was issued. *)
Attempt_Snapshot(c, o) ==
  [outcome |-> o, password |-> IF attempts[c] = <<>> THEN password ELSE issuedPw[c],
   invoked |-> callee'[c].isFunction,
   thisArg |-> IF callee'[c].isFunction THEN callee'[c].target ELSE NoValue,
   args |-> IF callee'[c].isFunction THEN callee'[c].args ELSE NoValue]

(* Mutant: the function is called as value(args), without obj as this. *)
Attempt_Unbound(c, o) ==
  [outcome |-> o, password |-> password,
   invoked |-> callee'[c].isFunction,
   thisArg |-> NoValue,
   args |-> IF callee'[c].isFunction THEN callee'[c].args ELSE NoValue]

(* An attempt of obj[prop]: value.apply(obj, args) when obj[prop] is a      *)
(* function, the value itself otherwise; what that does, and the           *)
(* manager.password it reads.  callee' is the call's arguments, set when   *)
(* the call is issued.                                                     *)
Attempt(c, o) ==
  [outcome |-> o, password |-> password,
   invoked |-> callee'[c].isFunction,
   thisArg |-> IF callee'[c].isFunction THEN callee'[c].target ELSE NoValue,
   args |-> IF callee'[c].isFunction THEN callee'[c].args ELSE NoValue]

(* resolve(result) *)
Resolve(c, v) ==
  /\ callState' = [callState EXCEPT ![c] = "settled"]
  /\ settle' = [settle EXCEPT ![c] = IF @.status = "pending" THEN Resolved(v) ELSE @]
  /\ settleCount' = [settleCount EXCEPT ![c] = @ + 1]

(* Mutant: the calls share one promise, so a rejection settles all of them. *)
Reject_Shared(c, x) ==
  /\ callState' = [d \in CallIds |-> IF callState[d] = "idle" /\ d # c THEN "idle"
                                                                       ELSE "settled"]
  /\ settle' = [d \in CallIds |->
                  IF settle[d].status = "pending" /\ (d = c \/ callState[d] # "idle")
                    THEN Rejected(x) ELSE settle[d]]
  /\ settleCount' = [d \in CallIds |->
                       IF d = c \/ callState[d] # "idle"
                         THEN settleCount[d] + 1 ELSE settleCount[d]]

(* reject(ex) *)
Reject(c, x) ==
  /\ callState' = [callState EXCEPT ![c] = "settled"]
  /\ settle' = [settle EXCEPT ![c] = IF @.status = "pending" THEN Rejected(x) ELSE @]
  /\ settleCount' = [settleCount EXCEPT ![c] = @ + 1]

(* Mutant: the range requested is one byte wider than the fault's. *)
RequestMissing_Widened(c, b, e) ==
  /\ fetchLog' = [fetchLog EXCEPT ![c] = Append(@, <<b, e + 1>>)]
  /\ callState' = [callState EXCEPT ![c] = "waiting"]
  /\ UNCHANGED <<settle, settleCount>>

(* Mutant: the range after the fault's is requested as well. *)
RequestMissing_Prefetch(c, b, e) ==
  /\ fetchLog' = [fetchLog EXCEPT ![c] = Append(Append(@, <<b, e>>), <<e, e + 1>>)]
  /\ callState' = [callState EXCEPT ![c] = "waiting"]
  /\ UNCHANGED <<settle, settleCount>>

(* this.streamManager.requestRange(begin, end).then(ensureHelper, reject) *)
RequestMissing(c, b, e) ==
  /\ fetchLog' = [fetchLog EXCEPT ![c] = Append(@, <<b, e>>)]
  /\ callState' = [callState EXCEPT ![c] = "waiting"]
  /\ UNCHANGED <<settle, settleCount>>

(* Mutant: the catch clause retries on every exception. *)
EnsureHelper_RetryAll(c, o) ==
  /\ attempts' = [attempts EXCEPT ![c] = Append(@, Attempt(c, o))]
  /\ CASE o.kind = "Ready" -> Resolve(c, o.payload) /\ UNCHANGED fetchLog
       [] OTHER -> RequestMissing(c, o.begin, o.end)

(* Mutant: a fault for a range this call already requested is an error. *)
EnsureHelper_NoRefetch(c, o) ==
  /\ attempts' = [attempts EXCEPT ![c] = Append(@, Attempt(c, o))]
  /\ CASE o.kind = "Ready" -> Resolve(c, o.payload) /\ UNCHANGED fetchLog
       [] o.kind = "Error" -> Reject(c, o.payload) /\ UNCHANGED fetchLog
       [] OTHER ->
            IF \E i \in 1..Len(fetchLog[c]) : fetchLog[c][i] = <<o.begin, o.end>>
              THEN Reject(c, "ProtocolError") /\ UNCHANGED fetchLog
              ELSE RequestMissing(c, o.begin, o.end)

(* Mutant: the catch clause rejects without returning, and goes on to      *)
(* request the range.                                                      *)
EnsureHelper_NoReturn(c, o) ==
  /\ attempts' = [attempts EXCEPT ![c] = Append(@, Attempt(c, o))]
  /\ CASE o.kind = "Ready" -> Resolve(c, o.payload) /\ UNCHANGED fetchLog
       [] o.kind = "Error" ->
            /\ fetchLog' = [fetchLog EXCEPT ![c] = Append(@, <<o.begin, o.end>>)]
            /\ callState' = [callState EXCEPT ![c] = "waiting"]
            /\ settle' = [settle EXCEPT ![c] = IF @.status = "pending"
                                                 THEN Rejected(o.payload) ELSE @]
            /\ settleCount' = [settleCount EXCEPT ![c] = @ + 1]
       [] OTHER -> RequestMissing(c, o.begin, o.end)

(* One run of ensureHelper, the operation doing o. *)
EnsureHelper(c, o) ==
  /\ attempts' = [attempts EXCEPT ![c] = Append(@, Attempt(c, o))]
  /\ CASE o.kind = "Ready" -> Resolve(c, o.payload) /\ UNCHANGED fetchLog
       [] o.kind = "Error" -> Reject(c, o.payload) /\ UNCHANGED fetchLog
       [] OTHER -> RequestMissing(c, o.begin, o.end)

(* Mutant: the local executor catches MissingDataException and requests the range. *)
LocalExecutor_Retry(c, o) ==
  /\ attempts' = [attempts EXCEPT ![c] = Append(@, Attempt(c, o))]
  /\ CASE o.kind = "Ready" -> Resolve(c, o.payload) /\ UNCHANGED fetchLog
       [] o.kind = "Error" -> Reject(c, o.payload) /\ UNCHANGED fetchLog
       [] OTHER -> RequestMissing(c, o.begin, o.end)

(* The executor of LocalPdfManager.ensure: a throw rejects the promise. *)
LocalExecutor(c, o) ==
  /\ attempts' = [attempts EXCEPT ![c] = Append(@, Attempt(c, o))]
  /\ IF o.kind = "Ready" THEN Resolve(c, o.payload) ELSE Reject(c, o.payload)
  /\ UNCHANGED fetchLog

(* Bookkeeping of a new ensure call. *)
Issue(c, k) ==
  /\ callState[c] = "idle"
  /\ callee' = [callee EXCEPT ![c] = k]
  /\ OpsMade < MaxOps
  /\ \A d \in CallIds : d < c => callState[d] # "idle"
  /\ issuedPw' = [issuedPw EXCEPT ![c] = password]
  /\ pwStable' = [pwStable EXCEPT ![c] = TRUE]
  /\ afterTerm' = [afterTerm EXCEPT ![c] = terminates > 0]

LocalEnsure(c, k, o) ==
  /\ variant = "local"
  /\ Issue(c, k)
  /\ LocalExecutor(c, o)
  /\ UNCHANGED <<variant, identVars, cleanups, pwArg, ctorPassword, password, urlVars, fetchDone, fetchErr,
                 pwUpdates, terminates,
                 aborted, reqVars, apiCalls>>

(* Mutant: ensure checks for termination before it attempts the operation. *)
NetworkEnsure_Guarded(c, k, o) ==
  /\ variant = "network"
  /\ Issue(c, k)
  /\ IF terminates > 0
       THEN Reject(c, TermErr) /\ UNCHANGED <<attempts, fetchLog>>
       ELSE EnsureHelper(c, o)
  /\ UNCHANGED <<variant, identVars, cleanups, pwArg, ctorPassword, password, urlVars, fetchDone, fetchErr, pwUpdates,
                 terminates, aborted, reqVars, apiCalls>>

NetworkEnsure(c, k, o) ==
  /\ variant = "network"
  /\ Issue(c, k)
  /\ EnsureHelper(c, o)
  /\ UNCHANGED <<variant, identVars, cleanups, pwArg, ctorPassword, password, urlVars, fetchDone, fetchErr,
                 pwUpdates, terminates,
                 aborted, reqVars, apiCalls>>

(* Mutant: ensureHelper runs again without waiting for the range request. *)
OnFetchFulfilled_Early(c, o) ==
  /\ callState[c] \in {"waiting", "fetchOk"}
  /\ OpsMade < MaxOps
  /\ UNCHANGED callee
  /\ EnsureHelper(c, o)
  /\ UNCHANGED <<variant, identVars, cleanups, pwArg, ctorPassword, password, urlVars, fetchDone, fetchErr,
                 issuedPw, pwStable, afterTerm, pwUpdates, terminates, aborted,
                 reqVars, apiCalls>>

(* Mutant: .then(undefined, reject), no fulfilment reaction. *)
OnFetchFulfilled_Dropped(c, o) ==
  /\ callState[c] = "fetchOk"
  /\ UNCHANGED vars

(* The fulfilment reaction of .then(ensureHelper, reject). *)
OnFetchFulfilled(c, o) ==
  /\ callState[c] = "fetchOk"
  /\ OpsMade < MaxOps
  /\ UNCHANGED callee
  /\ EnsureHelper(c, o)
  /\ UNCHANGED <<variant, identVars, cleanups, pwArg, ctorPassword, password, urlVars, fetchDone, fetchErr,
                 issuedPw, pwStable,
                 afterTerm, pwUpdates, terminates, aborted, reqVars, apiCalls>>

(* Mutant: .then(ensureHelper, ensureHelper). *)
OnFetchRejected_Retry(c) ==
  /\ callState[c] = "fetchFail"
  /\ OpsMade < MaxOps
  /\ UNCHANGED callee
  /\ \E o \in Outcomes : EnsureHelper(c, o)
  /\ UNCHANGED <<variant, identVars, cleanups, pwArg, ctorPassword, password, urlVars, fetchDone, fetchErr, issuedPw,
                 pwStable, afterTerm, pwUpdates, terminates, aborted, reqVars, apiCalls>>

(* Mutant: .then(ensureHelper), no rejection reaction. *)
OnFetchRejected_Dropped(c) ==
  /\ callState[c] = "fetchFail"
  /\ UNCHANGED vars

(* The rejection reaction of .then(ensureHelper, reject). *)
OnFetchRejected(c) ==
  /\ callState[c] = "fetchFail"
  /\ Reject(c, fetchErr[c])
  /\ UNCHANGED <<variant, identVars, cleanups, pwArg, ctorPassword, callee, password, urlVars, attempts, fetchLog,
                 fetchDone, fetchErr,
                 issuedPw, pwStable, afterTerm, pwUpdates, terminates, aborted, reqVars, apiCalls>>

(* --------------------- the stream manager (RangeSource) ---------------- *)
(* The promise of a range request is fulfilled. *)
FetchFulfilled(c) ==
  /\ callState[c] = "waiting"
  /\ callState' = [callState EXCEPT ![c] = "fetchOk"]
  /\ fetchDone' = [fetchDone EXCEPT ![c] = @ + 1]
  /\ UNCHANGED <<variant, identVars, cleanups, pwArg, ctorPassword, callee, password, urlVars, attempts, fetchLog,
                 fetchErr, settle,
                 settleCount, issuedPw, pwStable, afterTerm, pwUpdates, terminates,
                 aborted, reqVars, apiCalls>>

(* The promise of a range request is rejected. *)
FetchRejected(c, x) ==
  /\ callState[c] = "waiting"
  /\ callState' = [callState EXCEPT ![c] = "fetchFail"]
  /\ fetchErr' = [fetchErr EXCEPT ![c] = x]
  /\ UNCHANGED <<variant, identVars, cleanups, pwArg, ctorPassword, callee, password, urlVars, attempts, fetchLog,
                 fetchDone, settle,
                 settleCount, issuedPw, pwStable, afterTerm, pwUpdates, terminates,
                 aborted, reqVars, apiCalls>>

(* The part of the state terminate() can touch. *)
StreamState == [aborted |-> aborted, callState |-> callState, fetchErr |-> fetchErr,
                lastRange |-> lastRange]

(* streamManager.abort(): every pending range request is rejected. *)
AbortEffect(st) ==
  [aborted |-> TRUE,
   callState |-> [c \in CallIds |-> IF st.callState[c] = "waiting" THEN "fetchFail"
                                                                     ELSE st.callState[c]],
   fetchErr |-> [c \in CallIds |-> IF st.callState[c] = "waiting" THEN TermErr
                                                                   ELSE st.fetchErr[c]],
   lastRange |-> IF st.lastRange = "pending" THEN "rejected" ELSE st.lastRange]

(* Mutant: terminate() of the networked variant toggles the stream manager. *)
TerminateEffect_Toggle(v, st) ==
  IF v = "local" THEN st
  ELSE [AbortEffect(st) EXCEPT !.aborted = ~st.aborted]

(* Mutant: the local terminate() aborts as the networked one does. *)
TerminateEffect_LocalAbort(v, st) == AbortEffect(st)

(* terminate(): empty for the local variant, streamManager.abort() for the *)
(* networked one.                                                          *)
TerminateEffect(v, st) == IF v = "local" THEN st ELSE AbortEffect(st)

(* ------------------------ other manager methods ------------------------ *)
UpdatePassword(p) ==
  /\ OpsMade < MaxOps
  /\ apiCalls' = apiCalls + 1
  /\ pwUpdates' = pwUpdates + 1
  /\ password' = p
  /\ pwArg' = p
  /\ pwStable' = [c \in CallIds |-> FALSE]
  /\ UNCHANGED <<variant, identVars, cleanups, ctorPassword, callee, urlVars, callState, attempts, fetchLog,
                 fetchDone, fetchErr,
                 settle, settleCount, issuedPw, afterTerm, terminates, aborted, reqVars>>

RequestRange(r) ==
  /\ OpsMade < MaxOps
  /\ apiCalls' = apiCalls + 1
  /\ rangeCalls' = rangeCalls + 1
  /\ IF variant = "local"
       THEN lastRange' = "fulfilled" /\ UNCHANGED directLog
       ELSE lastRange' = "pending" /\ directLog' = directLog \cup {r}
  /\ UNCHANGED <<variant, identVars, cleanups, pwArg, ctorPassword, password, urlVars, callVars, pwUpdates,
                 terminates, aborted,
                 allChunks, pushVars>>

RequestLoadedStream ==
  /\ OpsMade < MaxOps
  /\ apiCalls' = apiCalls + 1
  /\ IF variant = "local" THEN UNCHANGED allChunks ELSE allChunks' = TRUE
  /\ UNCHANGED <<variant, identVars, cleanups, pwArg, ctorPassword, password, urlVars, callVars, pwUpdates,
                 terminates, aborted,
                 rangeCalls, directLog, lastRange, pushVars>>

(* Mutant: cleanup() also forgets the password. *)
Cleanup_ResetsPassword ==
  /\ OpsMade < MaxOps
  /\ apiCalls' = apiCalls + 1
  /\ cleanups' = cleanups + 1
  /\ password' = ctorPassword
  /\ UNCHANGED <<variant, identVars, pwArg, ctorPassword, urlVars, callVars, pwUpdates,
                 terminates, aborted, reqVars>>

(* cleanup(): this.pdfDocument.cleanup(). *)
Cleanup ==
  /\ OpsMade < MaxOps
  /\ apiCalls' = apiCalls + 1
  /\ cleanups' = cleanups + 1
  /\ UNCHANGED <<variant, identVars, pwArg, ctorPassword, password, urlVars, callVars,
                 pwUpdates, terminates, aborted, reqVars>>

(* onLoadedStream(): the promise made at construction for the local        *)
(* variant; the networked one hands out the stream manager's own promise,  *)
(* whose settlement is the stream manager's business.                      *)
OnLoadedStream ==
  IF variant = "local" THEN loadedStream
  ELSE [status |-> "pending", value |-> NoValue]

(* Mutant: the local variant overrides sendProgressiveData with an empty method. *)
SendProgressiveData_LocalNoOp(chunk) ==
  /\ OpsMade < MaxOps
  /\ apiCalls' = apiCalls + 1
  /\ sent' = Append(sent, chunk)
  /\ IF variant = "local"
       THEN UNCHANGED <<ingested, unreachables>>
       ELSE ingested' = Append(ingested, [chunk |-> chunk]) /\ UNCHANGED unreachables
  /\ UNCHANGED <<variant, identVars, cleanups, pwArg, ctorPassword, password, urlVars, callVars, pwUpdates,
                 terminates, aborted, rangeCalls, directLog, lastRange, allChunks>>

(* Mutant: the networked variant drops the chunk it is given. *)
SendProgressiveData_Dropped(chunk) ==
  /\ OpsMade < MaxOps
  /\ apiCalls' = apiCalls + 1
  /\ sent' = Append(sent, chunk)
  /\ IF variant = "local"
       THEN unreachables' = unreachables + 1
       ELSE UNCHANGED unreachables
  /\ UNCHANGED <<variant, identVars, cleanups, pwArg, ctorPassword, password, urlVars, callVars, pwUpdates,
                 terminates, aborted, rangeCalls, directLog, lastRange, allChunks,
                 ingested>>

(* sendProgressiveData(chunk): LocalPdfManager inherits the base method,   *)
(* which calls unreachable(); NetworkPdfManager hands { chunk, } to        *)
(* streamManager.onReceiveData.                                            *)
SendProgressiveData(chunk) ==
  /\ OpsMade < MaxOps
  /\ apiCalls' = apiCalls + 1
  /\ sent' = Append(sent, chunk)
  /\ IF variant = "local"
       THEN unreachables' = unreachables + 1 /\ UNCHANGED ingested
       ELSE ingested' = Append(ingested, [chunk |-> chunk]) /\ UNCHANGED unreachables
  /\ UNCHANGED <<variant, identVars, cleanups, pwArg, ctorPassword, password, urlVars, callVars, pwUpdates,
                 terminates, aborted, rangeCalls, directLog, lastRange, allChunks>>

Terminate ==
  /\ OpsMade < MaxOps
  /\ apiCalls' = apiCalls + 1
  /\ terminates' = terminates + 1
  /\ LET post == TerminateEffect(variant, StreamState) IN
       /\ aborted' = post.aborted
       /\ callState' = post.callState
       /\ fetchErr' = post.fetchErr
       /\ lastRange' = post.lastRange
  /\ UNCHANGED <<variant, identVars, cleanups, pwArg, ctorPassword, callee, password, urlVars, attempts, fetchLog,
                 fetchDone, settle,
                 settleCount, issuedPw, pwStable, afterTerm, pwUpdates, rangeCalls,
                 directLog, allChunks, pushVars>>

(* --------------------------- specification ----------------------------- *)
Init ==
  /\ variant \in Variants
  /\ docId \in DocIds
  /\ evaluatorOptions \in EvaluatorOptionSets
  /\ loadedStream \in
       IF variant = "local"
         THEN {[status |-> "fulfilled", value |-> d] : d \in DataBuffers}
         ELSE {[status |-> "none", value |-> NoValue]}
  /\ cleanups = 0
  /\ pwArg = NoValue
  /\ ctorPassword \in CtorPasswords
  /\ password = ctorPassword
  /\ rawDocBaseUrl \in DocBaseUrls
  /\ shadowed = [defined |-> FALSE, value |-> NoUrl]
  /\ validations = 0
  /\ warnings = 0
  /\ urlResults = {}
  /\ queries = 0
  /\ callee = [c \in CallIds |-> NoCallee]
  /\ callState = [c \in CallIds |-> "idle"]
  /\ attempts = [c \in CallIds |-> <<>>]
  /\ fetchLog = [c \in CallIds |-> <<>>]
  /\ fetchDone = [c \in CallIds |-> 0]
  /\ fetchErr = [c \in CallIds |-> NoValue]
  /\ settle = [c \in CallIds |-> Unsettled]
  /\ settleCount = [c \in CallIds |-> 0]
  /\ issuedPw = [c \in CallIds |-> NoValue]
  /\ pwStable = [c \in CallIds |-> FALSE]
  /\ afterTerm = [c \in CallIds |-> FALSE]
  /\ pwUpdates = 0
  /\ terminates = 0
  /\ aborted = FALSE
  /\ rangeCalls = 0
  /\ directLog = {}
  /\ lastRange = "none"
  /\ allChunks = FALSE
  /\ sent = <<>>
  /\ ingested = <<>>
  /\ unreachables = 0
  /\ apiCalls = 0

Next ==
  \/ \E c \in CallIds, k \in Callees, o \in Outcomes : LocalEnsure(c, k, o)
  \/ \E c \in CallIds, k \in Callees, o \in Outcomes : NetworkEnsure(c, k, o)
  \/ \E c \in CallIds, o \in Outcomes : OnFetchFulfilled(c, o)
  \/ \E c \in CallIds : OnFetchRejected(c)
  \/ \E c \in CallIds : FetchFulfilled(c)
  \/ \E c \in CallIds, x \in FetchErrors : FetchRejected(c, x)
  \/ \E p \in Passwords : UpdatePassword(p)
  \/ \E r \in Ranges : RequestRange(r)
  \/ RequestLoadedStream
  \/ Cleanup
  \/ \E chunk \in Chunks : SendProgressiveData(chunk)
  \/ DocBaseUrl
  \/ Terminate

Spec == Init /\ [][Next]_vars

(* The networked retry protocol on its own: ensure calls, the settling of  *)
(* their range requests, the reactions and terminate().  The other methods *)
(* touch nothing these steps read, except the password an attempt records. *)
NetworkInit ==
  /\ Init
  /\ variant = "network"
  /\ rawDocBaseUrl = ""

NetworkNext ==
  \/ \E c \in CallIds, k \in Callees, o \in Outcomes : NetworkEnsure(c, k, o)
  \/ \E c \in CallIds, o \in Outcomes : OnFetchFulfilled(c, o)
  \/ \E c \in CallIds : OnFetchRejected(c)
  \/ \E c \in CallIds : FetchFulfilled(c)
  \/ \E c \in CallIds, x \in FetchErrors : FetchRejected(c, x)
  \/ Terminate

(* The reactions of settled promises are microtasks: the job queue runs    *)
(* them before the next task.                                              *)
FairSpec ==
  /\ NetworkInit
  /\ [][NetworkNext]_vars
  /\ \A c \in CallIds : WF_vars(OnFetchRejected(c))

(* Calls that still need an attempt of their operation to settle. *)
RECURSIVE CountUnfinished(_, _)
CountUnfinished(cs, n) ==
  IF n = 0 THEN 0
  ELSE (IF cs[n] \in {"waiting", "fetchOk"} THEN 1 ELSE 0) + CountUnfinished(cs, n - 1)
Unfinished == CountUnfinished(callState, MaxCalls)

(* The faults of the operations converge: a data-not-resident fault is     *)
(* raised only while the run has room for the retry that follows it.       *)
Converges == OpsMade + Unfinished <= MaxOps

ConvergentNext == NetworkNext /\ Converges'

(* Fairness of a convergent run: every range request is settled by the     *)
(* stream manager, and the reactions of settled promises run.              *)
LiveSpec ==
  /\ NetworkInit
  /\ [][ConvergentNext]_vars
  /\ \A c \in CallIds :
       /\ WF_vars(OnFetchRejected(c))
       /\ WF_vars((\E o \in Outcomes : OnFetchFulfilled(c, o)) /\ Converges')
       /\ WF_vars(FetchFulfilled(c) \/ \E x \in FetchErrors : FetchRejected(c, x))

(* ------------------------------ claims --------------------------------- *)
LastOf(seq) == seq[Len(seq)]
FaultRange(a) == <<a.outcome.begin, a.outcome.end>>
Issued(c) == callState[c] # "idle"
IsSettled(c) == settle[c].status # "pending"
FetchFailures == FetchErrors \cup {TermErr}
(* What the promise of a call is settled with when the attempt doing o decides it. *)
SettledBy(o) == IF o.kind = "Ready" THEN Resolved(o.payload) ELSE Rejected(o.payload)
(* Nothing of call c changes in a step. *)
Frozen(c) ==
  /\ attempts'[c] = attempts[c]
  /\ fetchLog'[c] = fetchLog[c]
  /\ fetchDone'[c] = fetchDone[c]
  /\ settle'[c] = settle[c]

(* C1: a networked ensure call that resolved did so with the value of its  *)
(* last attempt, after every earlier attempt raised a data-not-resident    *)
(* fault; it issued exactly one range fetch per fault, the i-th fetch for  *)
(* exactly the bounds of the i-th fault, and every one of them completed.  *)
C1_ResolvesAfterExactFetches ==
  \A c \in CallIds :
    (variant = "network" /\ settle[c].status = "resolved") =>
      LET n == Len(attempts[c]) - 1 IN
        /\ n >= 0
        /\ Len(fetchLog[c]) = n
        /\ fetchDone[c] = n
        /\ \A i \in 1..n :
             /\ attempts[c][i].outcome.kind = "MissingData"
             /\ fetchLog[c][i] = FaultRange(attempts[c][i])
        /\ attempts[c][n + 1].outcome.kind = "Ready"
        /\ settle[c] = Resolved(attempts[c][n + 1].outcome.payload)

(* A call resolved after faulting on [0,1) and then on [2,4). *)
C1_Witness ==
  \E c \in CallIds :
    /\ variant = "network"
    /\ settle[c].status = "resolved"
    /\ fetchLog[c] = << <<0, 1>>, <<2, 4>> >>

(* C2: after every step, a networked call whose latest attempt raised a    *)
(* fault other than data-not-resident is rejected with exactly that fault  *)
(* and has issued no fetch for it; and a rejected call makes no further    *)
(* attempt and issues no further fetch.                                    *)
C2_OtherFaultRejectsAtOnce ==
  [][\A c \in CallIds :
       /\ (variant = "network" /\ attempts'[c] # <<>>
             /\ LastOf(attempts'[c]).outcome.kind = "Error")
           => /\ settle'[c] = Rejected(LastOf(attempts'[c]).outcome.payload)
              /\ Len(fetchLog'[c]) = Len(attempts'[c]) - 1
              /\ callState'[c] = "settled"
       /\ (variant = "network" /\ settle[c].status = "rejected") => Frozen(c)
    ]_vars

(* A call rejected with the operation's fault at a retry. *)
C2_Witness ==
  \E c \in CallIds :
    /\ variant = "network"
    /\ Len(attempts[c]) >= 2
    /\ LastOf(attempts[c]).outcome.kind = "Error"
    /\ settle[c] = Rejected("FormatError")

(* C3: a networked call whose range fetch failed makes no attempt and      *)
(* issues no fetch any more; when its rejection reaction runs it is        *)
(* rejected with the reason of the fetch failure, never with the           *)
(* data-not-resident fault that triggered the fetch.                       *)
C3_FetchFailureRejects ==
  [][\A c \in CallIds :
       /\ callState[c] = "fetchFail" =>
            /\ attempts'[c] = attempts[c]
            /\ fetchLog'[c] = fetchLog[c]
            /\ \/ callState'[c] = "fetchFail" /\ settle'[c] = settle[c]
               \/ callState'[c] = "settled" /\ settle'[c] = Rejected(fetchErr[c])
       /\ (variant = "network" /\ attempts'[c] # <<>> /\ IsSettled(c)'
             /\ LastOf(attempts'[c]).outcome.kind = "MissingData")
           => /\ settle'[c].status = "rejected"
              /\ settle'[c].reason \in FetchFailures
              /\ settle'[c].reason # MissingDataName
       /\ (IsSettled(c) /\ settle[c].reason \in FetchFailures) => Frozen(c)
    ]_vars

(* A call rejected with a network failure of its range fetch. *)
C3_Witness ==
  \E c \in CallIds :
    /\ variant = "network"
    /\ settle[c] = Rejected("NetworkError")
    /\ LastOf(attempts[c]).outcome.kind = "MissingData"

C5_PendingCallsRejectOnTerminate ==
  /\ [][\A c \in CallIds :
          /\ (variant = "network" /\ terminates' = terminates + 1
                /\ callState[c] = "waiting")
              => (callState'[c] = "fetchFail" /\ fetchErr'[c] = TermErr)
          /\ callState[c] = "fetchFail" => attempts'[c] = attempts[c]
       ]_vars
  /\ \A c \in CallIds :
       (callState[c] = "fetchFail" /\ fetchErr[c] = TermErr)
         ~> (settle[c] = Rejected(TermErr))

(* A call issued before terminate() and rejected with the termination error. *)
C5_Witness ==
  \E c \in CallIds :
    /\ variant = "network"
    /\ terminates > 0
    /\ ~afterTerm[c]
    /\ settle[c] = Rejected(TermErr)

(* C6 as stated: no call requests a range it has fetched before, and its   *)
(* retries never outnumber the distinct ranges its faults named.           *)
C6_NoRefetchOfFetchedRange ==
  \A c \in CallIds :
    /\ \A i, j \in 1..Len(fetchLog[c]) : i < j => fetchLog[c][i] # fetchLog[c][j]
    /\ Len(attempts[c]) - 1 <=
         Cardinality({FaultRange(attempts[c][i]) :
                        i \in {k \in 1..Len(attempts[c]) :
                                 attempts[c][k].outcome.kind = "MissingData"}})

(* C6 amended: a data-not-resident fault for a range the call has already  *)
(* fetched is handled as any other: the call stays unsettled, requests     *)
(* that range again and waits; the retries made always equal the fetches   *)
(* that completed, whether the ranges repeat or not.                       *)
C6_RefetchesRepeatedRange ==
  [][\A c \in CallIds :
       /\ (variant = "network" /\ Len(attempts'[c]) = Len(attempts[c]) + 1
             /\ LastOf(attempts'[c]).outcome.kind = "MissingData"
             /\ \E i \in 1..Len(fetchLog[c]) :
                  fetchLog[c][i] = FaultRange(LastOf(attempts'[c])))
           => /\ fetchLog'[c] = Append(fetchLog[c], FaultRange(LastOf(attempts'[c])))
              /\ callState'[c] = "waiting"
              /\ settle'[c].status = "pending"
       /\ (variant = "network" /\ Len(attempts'[c]) = Len(attempts[c]) + 1)
           => Len(attempts'[c]) - 1 = fetchDone'[c]
    ]_vars

(* A call that requested the same range twice. *)
C6_Witness ==
  \E c \in CallIds :
    /\ Len(fetchLog[c]) >= 2
    /\ fetchLog[c][1] = fetchLog[c][2]
    /\ fetchDone[c] >= 1

(* C7: on the local variant no range request ever reaches a stream         *)
(* manager, every ensure call made one attempt and is settled by it        *)
(* (resolved with its value, rejected with its fault of whatever kind),    *)
(* and requestRange returned a fulfilled promise.                          *)
C7_LocalNeverFetches ==
  variant = "local" =>
    /\ directLog = {}
    /\ ~aborted
    /\ ~allChunks
    /\ lastRange \in {"none", "fulfilled"}
    /\ rangeCalls > 0 => lastRange = "fulfilled"
    /\ \A c \in CallIds :
         /\ fetchLog[c] = <<>>
         /\ fetchDone[c] = 0
         /\ callState[c] \in {"idle", "settled"}
         /\ Issued(c) =>
              /\ Len(attempts[c]) = 1
              /\ settleCount[c] = 1
              /\ settle[c] = SettledBy(attempts[c][1].outcome)

(* Local: a call rejected with a data-not-resident fault, after terminate  *)
(* and a requestRange.                                                     *)
C7_Witness ==
  /\ variant = "local"
  /\ terminates > 0
  /\ rangeCalls > 0
  /\ \E c \in CallIds : afterTerm[c] /\ settle[c] = Rejected(MissingDataName)

(* C8: every attempt of a call issued after the latest updatePassword      *)
(* observed the password stored by it.                                     *)
C8_AttemptsSeeUpdatedPassword ==
  \A c \in CallIds :
    (Issued(c) /\ pwStable[c]) =>
      /\ issuedPw[c] = password
      /\ \A i \in 1..Len(attempts[c]) : attempts[c][i].password = password

(* A call issued after a password change that made a retry. *)
C8_Witness ==
  /\ pwUpdates > 0
  /\ password # ctorPassword
  /\ \E c \in CallIds : pwStable[c] /\ Len(attempts[c]) >= 2

(* C9 as stated: every attempt of a call observes the password that was    *)
(* stored when the call was issued.                                        *)
C9_InFlightKeepsPassword ==
  \A c \in CallIds :
    \A i \in 1..Len(attempts[c]) : attempts[c][i].password = issuedPw[c]

(* C9 amended: every attempt, the first one or a retry, observes the       *)
(* password stored at the moment it is made, so a call in flight observes  *)
(* the new password on every retry made after updatePassword.              *)
C9_AttemptsSeeCurrentPassword ==
  [][\A c \in CallIds :
       Len(attempts'[c]) = Len(attempts[c]) + 1 =>
         /\ LastOf(attempts'[c]).password = password
         /\ password' = password
    ]_vars

(* A call whose retry observed another password than its first attempt. *)
C9_Witness ==
  \E c \in CallIds :
    /\ Len(attempts[c]) >= 2
    /\ attempts[c][1].password = issuedPw[c]
    /\ attempts[c][2].password # issuedPw[c]

(* C10: the absolute-URL validation ran at most once, every docBaseUrl     *)
(* query returned the same value, the validated URL or null, and one       *)
(* diagnostic was recorded for an invalid non-empty candidate.             *)
C10_DocBaseUrlResolvedOnce ==
  /\ validations <= 1
  /\ warnings <= validations
  /\ queries = 0 => urlResults = {} /\ validations = 0
  /\ queries > 0 =>
       /\ shadowed.defined
       /\ validations = (IF rawDocBaseUrl = "" THEN 0 ELSE 1)
       /\ urlResults = {CASE rawDocBaseUrl = "https://example.com/a.pdf" -> rawDocBaseUrl
                          [] rawDocBaseUrl = "HTTP://EXAMPLE.COM" -> "http://example.com/"
                          [] OTHER -> NoUrl}
       /\ warnings = (IF rawDocBaseUrl = "not a url" THEN 1 ELSE 0)

(* Two queries of an invalid candidate. *)
C10_Witness ==
  /\ queries >= 2
  /\ rawDocBaseUrl = "not a url"
  /\ urlResults = {NoUrl}
  /\ warnings = 1

(* C11: the state a terminate() call leaves is a fixed point of            *)
(* terminate(): a second call made right after it changes nothing of the   *)
(* manager or of the stream manager, on either variant.                    *)
C11_TerminateIdempotent ==
  [][terminates' = terminates + 1 =>
       /\ TerminateEffect(variant, StreamState') = StreamState'
       /\ variant = "local" => StreamState' = StreamState
       /\ UNCHANGED <<password, urlVars, attempts, fetchLog, fetchDone, settle,
                      directLog, allChunks>>
    ]_vars

(* A networked manager terminated twice, a call having waited at the first. *)
C11_Witness ==
  /\ variant = "network"
  /\ terminates >= 2
  /\ aborted
  /\ \E c \in CallIds : fetchErr[c] = TermErr

(* C12 as stated: sendProgressiveData on the local variant raises no error. *)
C12_LocalSendIsSilent ==
  variant = "local" => unreachables = 0

(* C12 amended: on the networked variant the stream manager has received   *)
(* exactly the chunks given to sendProgressiveData, in order; on the local *)
(* variant nothing is ingested and every call raised the error of the      *)
(* abstract method; on both a call changes no other state of the manager.  *)
C12_SendProgressiveData ==
  [][/\ (variant = "network" =>
           /\ Len(ingested') = Len(sent')
           /\ \A i \in 1..Len(sent') : ingested'[i] = [chunk |-> sent'[i]]
           /\ unreachables' = 0)
     /\ (variant = "local" => ingested' = <<>> /\ unreachables' = Len(sent'))
     /\ (sent' # sent =>
           /\ Len(sent') = Len(sent) + 1
           /\ UNCHANGED <<password, urlVars, callVars, aborted, terminates, rangeCalls,
                          directLog, lastRange, allChunks>>)
    ]_vars

(* Two different chunks pushed to a networked manager. *)
C12_Witness ==
  /\ variant = "network"
  /\ sent = <<"chunkA", "chunkB">>
  /\ ingested = <<[chunk |-> "chunkA"], [chunk |-> "chunkB"]>>

(* C13: on both variants every attempt of a call whose obj[prop] is a      *)
(* function applies it to args with obj as this, every attempt of a call   *)
(* whose obj[prop] is a plain value invokes nothing, and a resolved call   *)
(* is resolved with what its last attempt produced.                        *)
C13_InvokesOrReturnsValue ==
  \A c \in CallIds :
    /\ Issued(c) => callee[c] \in Callees
    /\ \A i \in 1..Len(attempts[c]) :
         /\ attempts[c][i].invoked = callee[c].isFunction
         /\ attempts[c][i].invoked =>
              /\ attempts[c][i].thisArg = callee[c].target
              /\ attempts[c][i].args = callee[c].args
         /\ ~attempts[c][i].invoked =>
              /\ attempts[c][i].thisArg = NoValue
              /\ attempts[c][i].args = NoValue
    /\ settle[c].status = "resolved" =>
         /\ LastOf(attempts[c]).outcome.kind = "Ready"
         /\ settle[c].reason = LastOf(attempts[c]).outcome.payload

(* One call resolved with a plain value and another with a function's result. *)
C13_Witness ==
  \E c, d \in CallIds :
    /\ ~callee[c].isFunction /\ settle[c] = Resolved("catalog")
    /\ ~attempts[c][1].invoked
    /\ callee[d].isFunction /\ settle[d] = Resolved("catalog")
    /\ attempts[d][1].thisArg = "catalog" /\ attempts[d][1].args = "args"

(* Everything the protocol keeps for call c. *)
CallView(c) == <<callState[c], attempts[c], fetchLog[c], fetchDone[c], fetchErr[c],
                 settle[c], settleCount[c]>>

(* C14: a step other than terminate() changes at most one networked call   *)
(* and leaves every other call as it was; after it, as before, each call   *)
(* has requested exactly the ranges its own faults named, and is resolved  *)
(* with its own value or rejected with its own fault or its own fetch's    *)
(* failure.                                                                *)
C14_CallsAreIndependent ==
  [][variant = "network" =>
       /\ terminates' = terminates =>
            \A c, d \in CallIds :
              (c # d /\ CallView(c)' # CallView(c)) => CallView(d)' = CallView(d)
       /\ \A c \in CallIds :
            /\ \A i \in 1..Len(fetchLog'[c]) :
                 /\ i <= Len(attempts'[c])
                 /\ attempts'[c][i].outcome.kind = "MissingData"
                 /\ fetchLog'[c][i] = FaultRange(attempts'[c][i])
            /\ settle'[c].status = "resolved" =>
                 settle'[c] = SettledBy(LastOf(attempts'[c]).outcome)
            /\ settle'[c].status = "rejected" =>
                 \/ /\ LastOf(attempts'[c]).outcome.kind = "Error"
                    /\ settle'[c] = SettledBy(LastOf(attempts'[c]).outcome)
                 \/ /\ LastOf(attempts'[c]).outcome.kind = "MissingData"
                    /\ settle'[c] = Rejected(fetchErr'[c])
    ]_vars

(* Two calls waited at once; one was rejected by its fetch failure, the    *)
(* other then retried and resolved.                                        *)
C14_Witness ==
  \E c, d \in CallIds :
    /\ c # d
    /\ variant = "network"
    /\ settle[c] = Rejected("NetworkError")
    /\ Len(attempts[d]) = 2
    /\ settle[d].status = "resolved"

(* Range requests of call c that are neither fulfilled nor rejected yet. *)
Outstanding(c) == IF callState[c] = "waiting" THEN 1 ELSE 0
(* Range requests of call c that were rejected. *)
FailedFetches(c) ==
  IF \/ callState[c] = "fetchFail"
     \/ /\ settle[c].status = "rejected"
        /\ attempts[c] # <<>>
        /\ LastOf(attempts[c]).outcome.kind = "MissingData"
    THEN 1 ELSE 0

(* C15: a networked call never has more than one range request             *)
(* outstanding: its requests are the fulfilled ones, at most one rejected  *)
(* one and at most one pending one; and a retry is made only by the        *)
(* fulfilment reaction, when every request of the call has been fulfilled. *)
C15_RetriesAreSequential ==
  [][\A c \in CallIds :
       /\ variant = "network" =>
            (Len(fetchLog[c]) = fetchDone[c] + FailedFetches(c) + Outstanding(c))'
       /\ (variant = "network" /\ attempts[c] # <<>>
             /\ Len(attempts'[c]) = Len(attempts[c]) + 1)
           => /\ callState[c] = "fetchOk"
              /\ Outstanding(c) = 0
              /\ fetchDone[c] = Len(fetchLog[c])
              /\ fetchDone[c] = Len(attempts[c])
       /\ (variant = "network" /\ callState[c] = "waiting") => attempts'[c] = attempts[c]
    ]_vars

(* A call made its third attempt after two fetches completed. *)
C15_Witness ==
  \E c \in CallIds :
    /\ variant = "network"
    /\ Len(attempts[c]) = 3
    /\ fetchDone[c] = 2

(* C16: at every moment a networked call has issued exactly one range      *)
(* request per data-not-resident fault it caught, the i-th request for     *)
(* exactly the (begin, end) of its i-th fault.                             *)
C16_OneFetchPerFault ==
  \A c \in CallIds :
    variant = "network" =>
      /\ Len(fetchLog[c]) =
           Cardinality({i \in 1..Len(attempts[c]) :
                          attempts[c][i].outcome.kind = "MissingData"})
      /\ \A i \in 1..Len(fetchLog[c]) :
           /\ fetchLog[c][i][1] = attempts[c][i].outcome.begin
           /\ fetchLog[c][i][2] = attempts[c][i].outcome.end
           /\ fetchLog[c][i][1] < fetchLog[c][i][2]

(* An unsettled call that keeps faulting on one range. *)
C16_Witness ==
  \E c \in CallIds :
    /\ variant = "network"
    /\ callState[c] = "waiting"
    /\ Len(attempts[c]) = 3
    /\ fetchLog[c] = << <<2, 4>>, <<2, 4>>, <<2, 4>> >>

(* C17: when every range request is eventually settled and the faults of   *)
(* the operations converge, every issued networked call is eventually      *)
(* settled: resolved with its operation's value, or rejected with its      *)
(* operation's fault or with the failure of its range request.             *)
C17_EveryCallSettles ==
  \A c \in CallIds :
    Issued(c) ~>
      \/ /\ settle[c].status = "resolved"
         /\ settle[c].reason \in Values
      \/ /\ settle[c].status = "rejected"
         /\ settle[c].reason \in OpErrors \cup FetchFailures

(* A call settled after a retry, in a run whose faults converge. *)
C17_Witness ==
  \E c \in CallIds :
    /\ Converges
    /\ Len(attempts[c]) >= 2
    /\ fetchDone[c] >= 1
    /\ IsSettled(c)


(* C18: a terminate() call on the local variant changes nothing of the     *)
(* manager: the document's call history, the backing stream, the password  *)
(* and the identity are as before, and so is what onLoadedStream() returns. *)
C18_LocalTerminateIsNoOp ==
  [][(variant = "local" /\ terminates' = terminates + 1) =>
       /\ OnLoadedStream' = OnLoadedStream
       /\ OnLoadedStream'.status = "fulfilled"
       /\ UNCHANGED <<variant, identVars, cleanups, pwArg, ctorPassword, password,
                      urlVars, callVars, pwUpdates, aborted, reqVars>>
    ]_vars

(* A local manager terminated after one of its calls settled. *)
C18_Witness ==
  /\ variant = "local"
  /\ terminates >= 1
  /\ OnLoadedStream.value \in DataBuffers
  /\ \E c \in CallIds : IsSettled(c)

(* C19: the document id, the raw docBaseUrl candidate and the evaluator    *)
(* options never change; the stored password changes only in an            *)
(* updatePassword step, which leaves exactly its argument; every other     *)
(* operation leaves the password as it was.                                *)
C19_IdentityFixedPasswordByUpdate ==
  [][/\ UNCHANGED <<docId, rawDocBaseUrl, evaluatorOptions, ctorPassword>>
     /\ IF pwUpdates' = pwUpdates + 1
          THEN password' = pwArg' /\ pwArg' \in Passwords
          ELSE UNCHANGED <<password, pwArg, pwUpdates>>
     /\ pwUpdates' = 0 => password' = ctorPassword
    ]_vars

(* The password was replaced by a different one, and cleanup() ran. *)
C19_Witness ==
  /\ pwUpdates >= 1
  /\ password = pwArg
  /\ password # ctorPassword
  /\ cleanups >= 1

(* C20: a networked ensure call has resolve or reject called at most once, *)
(* exactly when it has settled; from its settlement on it makes no attempt *)
(* and issues no range fetch, and its outcome stays as it is, whatever     *)
(* fetch completions, fetch failures and terminate() calls follow.         *)
C20_SettlesAtMostOnce ==
  [][\A c \in CallIds :
       variant = "network" =>
         /\ settleCount'[c] <= 1
         /\ (settle'[c].status # "pending") <=> (settleCount'[c] = 1)
         /\ IsSettled(c) =>
              /\ Frozen(c)
              /\ callState'[c] = "settled"
              /\ settleCount'[c] = settleCount[c]
    ]_vars

(* A networked call that resolved on a retry, the manager terminated afterwards. *)
C20_Witness ==
  /\ variant = "network"
  /\ terminates >= 1
  /\ \E c \in CallIds :
       /\ settle[c].status = "resolved"
       /\ settleCount[c] = 1
       /\ Len(attempts[c]) >= 2
       /\ fetchDone[c] >= 1
       /\ fetchErr[c] = NoValue

====
